---- MODULE Spec2Model ----
(***************************************************************************)
(* Model of organize_pictures_py.py: the Markdown directive-table parser,  *)
(* the per-row normalisation, and the relocation loop of                   *)
(* organize_pictures() acting on a small file system.                      *)
(*                                                                         *)
(* Text is modelled as a sequence of one-character strings.  The token     *)
(* "sup2" stands for the single character U+00B2 (SUPERSCRIPT TWO), for    *)
(* which Python's str.isdigit() is True while int() raises ValueError.     *)
(***************************************************************************)
EXTENDS Integers, Sequences, FiniteSets, TLC

\* ------------------------------------------------------------------ bounds
MaxRows == 2
MaxClock == 1

\* ------------------------------------------------------------ text helpers
Space == " "
DecimalChars == {"0", "1", "2", "3", "4", "5", "6", "7", "8", "9"}
\* characters c with c.isdigit() == True
DigitChars == DecimalChars \cup {"sup2"}

UpperAlphabet == <<"A", "B", "C", "D", "E", "F", "G", "H", "I", "J", "K", "L", "M",
                   "N", "O", "P", "Q", "R", "S", "T", "U", "V", "W", "X", "Y", "Z">>
LowerAlphabet == <<"a", "b", "c", "d", "e", "f", "g", "h", "i", "j", "k", "l", "m",
                   "n", "o", "p", "q", "r", "s", "t", "u", "v", "w", "x", "y", "z">>

UpperChars == {UpperAlphabet[i] : i \in 1..26}

ToLower ==
    [c \in UpperChars |-> LowerAlphabet[CHOOSE i \in 1..26 : UpperAlphabet[i] = c]]

LowerChar(c) == IF c \in UpperChars THEN ToLower[c] ELSE c

\* str.lower()
Lower(s) == [i \in 1..Len(s) |-> LowerChar(s[i])]

\* str.strip()
RECURSIVE LStrip(_)
LStrip(s) == IF s # <<>> /\ Head(s) = Space THEN LStrip(Tail(s)) ELSE s

RECURSIVE RStrip(_)
RStrip(s) ==
    IF s # <<>> /\ s[Len(s)] = Space THEN RStrip(SubSeq(s, 1, Len(s) - 1)) ELSE s

Strip(s) == RStrip(LStrip(s))

\* str.replace(ch, '') for a single character
RemoveChar(s, ch) == SelectSeq(s, LAMBDA c : c # ch)

\* str.replace(old, new) for single characters
ReplaceChar(s, old, new) == [i \in 1..Len(s) |-> IF s[i] = old THEN new ELSE s[i]]

\* str.endswith(suf)
EndsWith(s, suf) ==
    /\ Len(s) >= Len(suf)
    /\ SubSeq(s, Len(s) - Len(suf) + 1, Len(s)) = suf

\* needle in s   (substring test)
Contains(s, needle) ==
    \E i \in 0..(Len(s) - Len(needle)) : SubSeq(s, i + 1, i + Len(needle)) = needle

\* list.index(x): position (0-based) of the first occurrence, -1 when absent
\* (Python raises ValueError there; callers test membership first)
IndexOf(seq, x) ==
    IF \E i \in 1..Len(seq) : seq[i] = x
    THEN (CHOOSE i \in 1..Len(seq) : seq[i] = x /\ \A j \in 1..(i - 1) : seq[j] # x) - 1
    ELSE -1

\* s.split('.')[0]
BeforeFirstDot(s) ==
    IF \E i \in 1..Len(s) : s[i] = "."
    THEN SubSeq(s, 1, (CHOOSE i \in 1..Len(s) :
                          s[i] = "." /\ \A j \in 1..(i - 1) : s[j] # ".") - 1)
    ELSE s

\* str.isdigit()
IsDigit(s) == s # <<>> /\ \A i \in 1..Len(s) : s[i] \in DigitChars

\* int(s) succeeds (for a string that passed isdigit())
IntParses(s) == s # <<>> /\ \A i \in 1..Len(s) : s[i] \in DecimalChars

\* str(int(s)) for a decimal string: leading zeros removed, "0" for all zeros
RECURSIVE StrInt(_)
StrInt(s) == IF Len(s) > 1 /\ Head(s) = "0" THEN StrInt(Tail(s)) ELSE s

\* os.path.splitext(name) for a name without directory separators:
\* the extension starts at the last dot, unless only dots precede it
SplitExt(name) ==
    LET dots == {i \in 1..Len(name) : name[i] = "."}
        last == CHOOSE i \in dots : \A j \in dots : j <= i
    IN  IF dots # {} /\ (\E j \in 1..(last - 1) : name[j] # ".")
        THEN <<SubSeq(name, 1, last - 1), SubSeq(name, last, Len(name))>>
        ELSE <<name, <<>> >>

JpgExt == <<".", "j", "p", "g">>

\* ----------------------------------------------------- sanitize_filename
InvalidChars == {"<", ">", ":", "\"", "/", "\\", "|", "?", "*"}

sanitize_filename(filename) ==
    Strip([i \in 1..Len(filename) |->
              IF filename[i] \in InvalidChars THEN "_" ELSE filename[i]])

\* ---------------------------------------------------- parse_markdown_table
ReqCurrent == <<"c", "u", "r", "r", "e", "n", "t", "f", "i", "l", "e", "n", "a", "m", "e">>
ReqSuggested == <<"s", "u", "g", "g", "e", "s", "t", "e", "d", "f", "i", "l", "e", "n", "a", "m", "e">>
ReqArea == <<"a", "r", "e", "a">>
OptDate == <<"d", "a", "t", "e">>
OptTags == <<"t", "a", "g", "s">>

required_headers == <<ReqCurrent, ReqSuggested, ReqArea>>

\* raw_headers = [h.strip() for h in headers_str.split('|') if h.strip()]
raw_headers(segments) ==
    LET stripped == [i \in 1..Len(segments) |-> Strip(segments[i])]
    IN  SelectSeq(stripped, LAMBDA h : h # <<>>)

\* norm_h = h.lower().replace(' ', '')
NormHeader(h) == RemoveChar(Lower(h), Space)

headers(segments) ==
    LET raw == raw_headers(segments)
    IN  [i \in 1..Len(raw) |-> NormHeader(raw[i])]

InSeq(seq, x) == \E i \in 1..Len(seq) : seq[i] = x

\* a required header that is absent but is a substring of some header
\* only draws a warning and is not recorded as missing
missing_headers(hdrs) ==
    {r \in 1..Len(required_headers) :
        /\ ~InSeq(hdrs, required_headers[r])
        /\ ~\E i \in 1..Len(hdrs) : Contains(hdrs[i], required_headers[r])}

\* headers.index(...) of a required header raises ValueError when it is absent
IndexRaises(hdrs) ==
    \E r \in 1..Len(required_headers) : ~InSeq(hdrs, required_headers[r])

current_file_idx(hdrs) == IndexOf(hdrs, ReqCurrent)
suggested_file_idx(hdrs) == IndexOf(hdrs, ReqSuggested)
area_idx(hdrs) == IndexOf(hdrs, ReqArea)
date_idx(hdrs) == IF InSeq(hdrs, OptDate) THEN IndexOf(hdrs, OptDate) ELSE -1
tags_idx(hdrs) == IF InSeq(hdrs, OptTags) THEN IndexOf(hdrs, OptTags) ELSE -1

Max2(a, b) == IF a >= b THEN a ELSE b

\* cells = [cell.strip() for cell in row.split('|') if cell]
Cells(line) ==
    LET kept == SelectSeq(line, LAMBDA c : c # <<>>)
    IN  [i \in 1..Len(kept) |-> Strip(kept[i])]

\* faulty variant of EnoughCells: the optional columns' indices must be covered too
EnoughCellsWithOptional(cells, hdrs) ==
    Len(cells) >= Max2(Max2(current_file_idx(hdrs), suggested_file_idx(hdrs)),
                       Max2(area_idx(hdrs),
                            Max2(date_idx(hdrs), tags_idx(hdrs)))) + 1

\* len(cells) >= max(current_file_idx, suggested_file_idx, area_idx) + 1
EnoughCells(cells, hdrs) ==
    Len(cells) >= Max2(current_file_idx(hdrs),
                       Max2(suggested_file_idx(hdrs), area_idx(hdrs))) + 1

KeyCurrent == "Current File Name"
KeySuggested == "Suggested File Name"
KeyArea == "Area"
KeyDate == "Date"
KeyTags == "Tags"

row_dict(cells, hdrs) ==
    LET keys == {KeyCurrent, KeySuggested, KeyArea}
                \cup (IF date_idx(hdrs) >= 0 /\ date_idx(hdrs) < Len(cells)
                      THEN {KeyDate} ELSE {})
                \cup (IF tags_idx(hdrs) >= 0 /\ tags_idx(hdrs) < Len(cells)
                      THEN {KeyTags} ELSE {})
        idx(k) == CASE k = KeyCurrent -> current_file_idx(hdrs)
                    [] k = KeySuggested -> suggested_file_idx(hdrs)
                    [] k = KeyArea -> area_idx(hdrs)
                    [] k = KeyDate -> date_idx(hdrs)
                    [] k = KeyTags -> tags_idx(hdrs)
    IN  [k \in keys |-> cells[idx(k) + 1]]

\* the rows kept from the body, in source line order
ParseRows(body, hdrs) ==
    LET cells == [i \in 1..Len(body) |-> Cells(body[i])]
        kept == SelectSeq(cells, LAMBDA c : EnoughCells(c, hdrs))
    IN  [i \in 1..Len(kept) |-> row_dict(kept[i], hdrs)]

None == [none |-> TRUE, rows |-> <<>>]

\* faulty variant of parse_markdown_table: a header that contains a missing required
\* key is used in its place instead of only being reported
SimilarAsKey(hdrs) ==
    [i \in 1..Len(hdrs) |->
        IF \E r \in 1..Len(required_headers) :
              ~InSeq(hdrs, required_headers[r]) /\ Contains(hdrs[i], required_headers[r])
        THEN required_headers[CHOOSE r \in 1..Len(required_headers) :
                 ~InSeq(hdrs, required_headers[r])
                 /\ Contains(hdrs[i], required_headers[r])]
        ELSE hdrs[i]]

parse_accepting_similar(doc) ==
    LET hdrs == SimilarAsKey(headers(doc.header))
    IN  IF ~doc.table THEN None
        ELSE IF missing_headers(hdrs) # {} THEN None
        ELSE IF IndexRaises(hdrs) THEN None
        ELSE [none |-> FALSE, rows |-> ParseRows(doc.body, hdrs)]

\* doc.table: re.search found a header line, a separator line and body lines
parse_markdown_table(doc) ==
    LET hdrs == headers(doc.header)
    IN  IF ~doc.table THEN None
        ELSE IF missing_headers(hdrs) # {} THEN None
        ELSE IF IndexRaises(hdrs) THEN None
        ELSE [none |-> FALSE, rows |-> ParseRows(doc.body, hdrs)]

\* `not file_data`: None and the empty list are both falsy
Falsy(file_data) == file_data.none \/ file_data.rows = <<>>

\* ------------------------------------------------------ row normalisation
\* str(row.get(key, "")).strip()
Field(row, key) == IF key \in DOMAIN row THEN Strip(row[key]) ELSE <<>>

\* faulty variant of IsSkipped: an empty Area is not checked
IsSkippedIgnoringArea(row) ==
    \/ Field(row, KeyCurrent) = <<>>
    \/ Field(row, KeySuggested) = <<>>

\* if not current_file or not suggested_name or not area
IsSkipped(row) ==
    \/ Field(row, KeyCurrent) = <<>>
    \/ Field(row, KeySuggested) = <<>>
    \/ Field(row, KeyArea) = <<>>

StartsWithZeroThenDigits(b) == b # <<>> /\ Head(b) = "0" /\ IsDigit(Tail(b))

\* int(base_file) raises ValueError
RaisesValueError(current_file) ==
    LET b == BeforeFirstDot(current_file)
    IN  (IsDigit(b) \/ StartsWithZeroThenDigits(b)) /\ ~IntParses(b)

base_file(current_file) ==
    LET b == BeforeFirstDot(current_file)
    IN  IF IsDigit(b) THEN StrInt(b)
        ELSE IF StartsWithZeroThenDigits(b) THEN StrInt(b)
        ELSE b

\* the source file name looked up in the pictures directory
ResolveCurrent(current_file) ==
    IF ~EndsWith(Lower(current_file), JpgExt)
    THEN base_file(current_file) \o JpgExt
    ELSE base_file(current_file) \o JpgExt

\* sanitised suggested name with the extension ensured
ResolveSuggested(suggested_name) ==
    LET s == sanitize_filename(suggested_name)
    IN  IF ~EndsWith(Lower(s), JpgExt) THEN s \o JpgExt ELSE s

DigitText == <<"0", "1", "2", "3", "4", "5", "6", "7", "8", "9">>

\* datetime.now().strftime("%Y%m%d%H%M%S") at clock second t: fourteen digits,
\* equal for two reads within the same second
strftime(t) ==
    <<"2", "0", "2", "5", "0", "5", "0", "6", "1", "2", "0", "0", "0", DigitText[t + 1]>>

\* f"{name_part}_{timestamp}{ext_part}"
UniqueName(suggested_name, t) ==
    LET parts == SplitExt(suggested_name)
    IN  parts[1] \o <<"_">> \o strftime(t) \o parts[2]

\* metadata_commands built from the row's Date and Tags
metadata_commands(row) ==
    (IF KeyDate \in DOMAIN row /\ Strip(row[KeyDate]) # <<>>
     THEN <<[tag |-> "DateTimeOriginal", value |-> Strip(row[KeyDate])]>>
     ELSE <<>>)
    \o
    (IF KeyTags \in DOMAIN row /\ Strip(row[KeyTags]) # <<>>
     THEN <<[tag |-> "Keywords", value |-> ReplaceChar(Strip(row[KeyTags]), ";", ",")]>>
     ELSE <<>>)

\* ------------------------------------------------------------------ inputs
\* header cells and body cells as they stand between the pipes of pictures.md
H_Current == <<" ", "c", "u", "r", "r", "e", "n", "t", " ", "f", "i", "l", "e", " ", "n", "a", "m", "e", " ">>
H_Suggested == <<"S", "U", "G", "G", "E", "S", "T", "E", "D", "F", "I", "L", "E", "N", "A", "M", "E">>
H_Area == <<" ", "A", "R", "E", "A", " ">>
H_Date == <<"D", "a", "t", "e">>
H_Tags == <<"T", "a", "g", "s">>
H_CurrentTitle == <<"C", "u", "r", "r", "e", "n", "t", " ", "F", "i", "l", "e", " ", "N", "a", "m", "e">>
H_SuggestedTitle == <<"S", "u", "g", "g", "e", "s", "t", "e", "d", " ", "F", "i", "l", "e", " ", "N", "a", "m", "e">>
H_AreaTitle == <<"A", "r", "e", "a">>
H_AreaCode == <<"A", "r", "e", "a", " ", "C", "o", "d", "e">>
c_1 == <<" ", "1", " ">>
c_01 == <<" ", "0", "1", " ">>
c_2 == <<" ", "2", " ">>
c_007png == <<" ", "0", "0", "7", ".", "p", "n", "g", " ">>
c_sup == <<" ", "sup2", " ">>
c_beach == <<" ", "b", "e", "a", "c", "h", " ">>
c_beachJPG == <<" ", "b", "e", "a", "c", "h", ".", "J", "P", "G", " ">>
c_sunset == <<" ", "s", "u", "n", ":", "s", "e", "t", " ">>
c_Trip == <<" ", "T", "r", "i", "p", " ">>
c_Home == <<" ", "H", "o", "m", "e", " ">>
c_date == <<" ", "2", "0", "2", "4", " ">>
c_tags == <<" ", "a", ";", "b", " ">>
c_blank == <<" ">>
c_dot == <<" ", ".", " ">>
n_1jpg == <<"1", ".", "j", "p", "g">>
n_2jpg == <<"2", ".", "j", "p", "g">>
n_7jpg == <<"7", ".", "j", "p", "g">>
n_beachjpg == <<"b", "e", "a", "c", "h", ".", "j", "p", "g">>
d_Trip == <<"T", "r", "i", "p">>

\* the header line split on '|'
HdrFull == <<H_Current, H_Suggested, H_Area, H_Date, H_Tags>>
HdrPermuted == <<H_Date, H_AreaTitle, H_CurrentTitle, H_SuggestedTitle>>
HdrNoArea == <<H_CurrentTitle, H_SuggestedTitle, H_Date>>
HdrNoCurrent == <<H_SuggestedTitle, H_AreaTitle, H_Tags>>
HdrAreaCode == <<H_CurrentTitle, H_SuggestedTitle, H_AreaCode>>

GoodHeaders == {HdrFull, HdrPermuted}
BadHeaders == {HdrNoArea, HdrNoCurrent, HdrAreaCode}

\* body lines split on '|': the empty strings before the first pipe and after
\* the last one are part of the split
E == <<>>
LineFull == <<E, c_1, c_beach, c_Trip, c_date, c_tags, E>>
LineZero == <<E, c_01, c_beachJPG, c_Trip, E>>
LineTwo == <<E, c_2, c_beach, c_Trip, c_blank, c_tags, E>>
LinePng == <<E, c_007png, c_sunset, c_Home, c_date, E>>
LineBlankArea == <<E, c_1, c_beach, c_blank, E>>
LineShort == <<E, c_1, c_beach, E, E>>
LineSup == <<E, c_sup, c_beach, c_Trip, E>>
LinePermuted == <<E, c_date, c_Trip, c_2, c_beach, E>>
LineDot == <<E, c_1, c_2, c_dot, E>>

Lines == {LineFull, LineZero, LineTwo, LinePng, LineBlankArea, LineShort,
          LineSup, LinePermuted, LineDot}

Bodies(n) == UNION {[1..k -> Lines] : k \in 1..n}

AbsentDoc == [exists |-> FALSE, table |-> FALSE, header |-> <<>>, body |-> <<>>]
NoTableDoc == [exists |-> TRUE, table |-> FALSE, header |-> <<>>, body |-> <<>>]

Docs ==
    {AbsentDoc, NoTableDoc}
    \cup {[exists |-> TRUE, table |-> TRUE, header |-> h, body |-> b] :
             h \in GoodHeaders, b \in Bodies(MaxRows)}
    \cup {[exists |-> TRUE, table |-> TRUE, header |-> h, body |-> b] :
             h \in BadHeaders, b \in Bodies(1)}

\* files: [dir, name, id]; dir <<>> is the pictures directory, id names the
\* picture the file holds
File(dir, name, id) == [dir |-> dir, name |-> name, id |-> id]

SourceSets ==
    { {File(<<>>, n_1jpg, "p1"), File(<<>>, n_2jpg, "p2"), File(<<>>, n_7jpg, "p7")},
      {File(<<>>, n_2jpg, "p2"), File(<<>>, n_7jpg, "p7")},
      {File(<<>>, n_1jpg, "p1"), File(<<>>, n_7jpg, "p7")} }

\* what the area folders hold before the run
AreaStates ==
    { [dirs |-> {}, files |-> {}],
      [dirs |-> {d_Trip}, files |-> {}],
      [dirs |-> {d_Trip}, files |-> {File(d_Trip, n_beachjpg, "old")}] }

\* ------------------------------------------------------------------- state
VARIABLES
    pc,             \* position in organize_pictures()
    exiftool,       \* whether the exiftool executable can be run
    doc,            \* pictures.md
    fs,             \* files on disk
    dirs,           \* area folders on disk
    fs0,            \* fs when the run started
    dirs0,          \* dirs when the run started
    clock,          \* the second read by the last datetime.now()
    file_data,      \* result of parse_markdown_table
    index,          \* rows of file_data already processed
    success_count,
    error_count,
    error_files,
    cur,            \* locals of the row being processed
    stamp_requests, \* number of exiftool metadata invocations
    log,            \* outcome of each processed row, in order
    result,         \* return value of organize_pictures()
    report          \* picture_errors.txt

vars == <<pc, exiftool, doc, fs, dirs, fs0, dirs0, clock, file_data, index, success_count,
          error_count, error_files, cur, stamp_requests, log, result, report>>

NoCur == [current_file |-> <<>>, area |-> <<>>, computed_name |-> <<>>,
          suggested_name |-> <<>>, collided |-> FALSE, commands |-> <<>>,
          stamp |-> "none"]

NoReport == [written |-> FALSE, lines |-> <<>>]

Init ==
    /\ pc = "check_exiftool"
    /\ exiftool \in BOOLEAN
    /\ doc \in Docs
    /\ \E s \in SourceSets, a \in AreaStates :
          /\ fs = s \cup a.files
          /\ dirs = a.dirs
    /\ fs0 = fs
    /\ dirs0 = dirs
    /\ clock = 0
    /\ file_data = None
    /\ index = 0
    /\ success_count = 0
    /\ error_count = 0
    /\ error_files = <<>>
    /\ cur = NoCur
    /\ stamp_requests = 0
    /\ log = <<>>
    /\ result = "running"
    /\ report = NoReport

\* -------------------------------------------------------- file system
\* os.path.join(pictures_dir, area): the area "." names pictures_dir itself
PathDir(dir) == IF dir = <<".">> THEN <<>> ELSE dir

\* os.path.isfile / os.path.exists of a file path
Exists(files, dir, name) == \E f \in files : f.dir = PathDir(dir) /\ f.name = name

FileAt(files, dir, name) == CHOOSE f \in files : f.dir = PathDir(dir) /\ f.name = name

\* os.path.exists(folder_path) in create_folder
FolderExists(folders, dir) == PathDir(dir) = <<>> \/ dir \in folders

\* faulty variant of MoveFile: the file is copied and the source is left in place
MoveFileKeepsSource(files, name, dir2, name2) ==
    LET src == FileAt(files, <<>>, name)
    IN  {f \in files : ~(f.dir = PathDir(dir2) /\ f.name = name2)}
        \cup {File(PathDir(dir2), name2, src.id)}

\* shutil.move(src, dst) of a file onto a file path: a file already at dst
\* is replaced
MoveFile(files, name, dir2, name2) ==
    LET src == FileAt(files, <<>>, name)
    IN  {f \in files : ~(f.dir = PathDir(dir2) /\ f.name = name2) /\ f # src}
        \cup {File(PathDir(dir2), name2, src.id)}

\* --------------------------------------------------------- organize_pictures
Row == file_data.rows[index + 1]

InLoop == pc = "row" /\ index < Len(file_data.rows)

\* where the loop continues after a row
AfterRow == IF index + 1 < Len(file_data.rows) THEN "row" ELSE "summary"

Abort ==
    /\ pc' = "done"
    /\ result' = "False"

CheckExifTool ==
    /\ pc = "check_exiftool"
    /\ IF exiftool
       THEN pc' = "check_markdown" /\ UNCHANGED result
       ELSE Abort
    /\ UNCHANGED <<exiftool, doc, fs, dirs, fs0, dirs0, clock, file_data, index, success_count,
                   error_count, error_files, cur, stamp_requests, log, report>>

CheckMarkdownFile ==
    /\ pc = "check_markdown"
    /\ IF doc.exists
       THEN pc' = "parse" /\ UNCHANGED result
       ELSE Abort
    /\ UNCHANGED <<exiftool, doc, fs, dirs, fs0, dirs0, clock, file_data, index, success_count,
                   error_count, error_files, cur, stamp_requests, log, report>>

ParseTable ==
    /\ pc = "parse"
    /\ file_data' = parse_markdown_table(doc)
    /\ IF Falsy(file_data')
       THEN Abort
       ELSE pc' = "row" /\ UNCHANGED result
    /\ UNCHANGED <<exiftool, doc, fs, dirs, fs0, dirs0, clock, index, success_count,
                   error_count, error_files, cur, stamp_requests, log, report>>

Outcome(kind, current_file, area, computed, dest, stamp, collided, dest_existed) ==
    [kind |-> kind, row |-> Row, current_file |-> current_file, area |-> area,
     computed_name |-> computed, dest_name |-> dest, stamp |-> stamp,
     collided |-> collided, dest_existed |-> dest_existed]

Message(file, reason) == [file |-> file, reason |-> reason]

\* faulty variant of SkipRow: the skipped row is not counted as an error
SkipRowUncounted ==
    /\ InLoop
    /\ IsSkipped(Row)
    /\ index' = index + 1
    /\ pc' = AfterRow
    /\ log' = Append(log, Outcome("skipped", <<>>, <<>>, <<>>, <<>>, "none", FALSE, FALSE))
    /\ UNCHANGED <<exiftool, doc, fs, dirs, fs0, dirs0, clock, file_data, success_count,
                   error_count, error_files, cur, stamp_requests, result, report>>

\* lines 192-196: a row with an empty critical value
SkipRow ==
    /\ InLoop
    /\ IsSkipped(Row)
    /\ error_count' = error_count + 1
    /\ index' = index + 1
    /\ pc' = AfterRow
    /\ log' = Append(log, Outcome("skipped", <<>>, <<>>, <<>>, <<>>, "none", FALSE, FALSE))
    /\ UNCHANGED <<exiftool, doc, fs, dirs, fs0, dirs0, clock, file_data, success_count,
                   error_files, cur, stamp_requests, result, report>>

\* lines 306-310: int(base_file) raised inside the row's try block
RowException ==
    /\ InLoop
    /\ ~IsSkipped(Row)
    /\ RaisesValueError(Field(Row, KeyCurrent))
    /\ error_count' = error_count + 1
    /\ error_files' = Append(error_files, Message(<<"R", "o", "w">>, "ValueError"))
    /\ index' = index + 1
    /\ pc' = AfterRow
    /\ log' = Append(log, Outcome("exception", <<>>, <<>>, <<>>, <<>>, "none", FALSE, FALSE))
    /\ UNCHANGED <<exiftool, doc, fs, dirs, fs0, dirs0, clock, file_data, success_count,
                   cur, stamp_requests, result, report>>

Normalizes(row) == ~IsSkipped(row) /\ ~RaisesValueError(Field(row, KeyCurrent))

current_file == ResolveCurrent(Field(Row, KeyCurrent))
area == sanitize_filename(Field(Row, KeyArea))
suggested_name == ResolveSuggested(Field(Row, KeySuggested))

\* lines 233-239
SourceMissing ==
    /\ InLoop
    /\ Normalizes(Row)
    /\ ~Exists(fs, <<>>, current_file)
    /\ error_count' = error_count + 1
    /\ error_files' = Append(error_files, Message(current_file, "File not found"))
    /\ index' = index + 1
    /\ pc' = AfterRow
    /\ log' = Append(log, Outcome("not_found", current_file, area, suggested_name,
                                  <<>>, "none", FALSE, FALSE))
    /\ UNCHANGED <<exiftool, doc, fs, dirs, fs0, dirs0, clock, file_data, success_count,
                   cur, stamp_requests, result, report>>

\* lines 241-245: os.makedirs raised inside create_folder
CreateFolderFails ==
    /\ InLoop
    /\ Normalizes(Row)
    /\ Exists(fs, <<>>, current_file)
    /\ ~FolderExists(dirs, area)
    /\ error_count' = error_count + 1
    /\ error_files' = Append(error_files,
                             Message(current_file, "Failed to create folder"))
    /\ index' = index + 1
    /\ pc' = AfterRow
    /\ log' = Append(log, Outcome("folder_failed", current_file, area, suggested_name,
                                  <<>>, "none", FALSE, FALSE))
    /\ UNCHANGED <<exiftool, doc, fs, dirs, fs0, dirs0, clock, file_data, success_count,
                   cur, stamp_requests, result, report>>

\* the name the file is moved to, given the second t read from the clock
DestinationName(files, t) ==
    IF Exists(files, area, suggested_name)
    THEN UniqueName(suggested_name, t)
    ELSE suggested_name

\* lines 241-271: folder available, destination chosen, metadata collected
PrepareRow ==
    /\ InLoop
    /\ Normalizes(Row)
    /\ Exists(fs, <<>>, current_file)
    /\ dirs' = IF FolderExists(dirs, area) THEN dirs ELSE dirs \cup {area}
    /\ \E t \in {clock, IF clock < MaxClock THEN clock + 1 ELSE clock} :
          /\ clock' = IF Exists(fs, area, suggested_name) THEN t ELSE clock
          /\ cur' = [current_file |-> current_file,
                     area |-> area,
                     computed_name |-> suggested_name,
                     suggested_name |-> DestinationName(fs, t),
                     collided |-> Exists(fs, area, suggested_name),
                     commands |-> metadata_commands(Row),
                     stamp |-> "none"]
    /\ pc' = IF metadata_commands(Row) # <<>> THEN "stamp" ELSE "move"
    /\ UNCHANGED <<exiftool, doc, fs, fs0, dirs0, file_data, index, success_count, error_count,
                   error_files, stamp_requests, log, result, report>>

\* faulty variant of Stamp: a failed exiftool run fails the row and skips the move
StampFailureIsError ==
    /\ pc = "stamp"
    /\ stamp_requests' = stamp_requests + 1
    /\ \E ok \in BOOLEAN :
          IF ok
          THEN /\ cur' = [cur EXCEPT !.stamp = "ok"]
               /\ pc' = "move"
               /\ UNCHANGED <<index, error_count, error_files, log>>
          ELSE /\ cur' = NoCur
               /\ error_count' = error_count + 1
               /\ error_files' = Append(error_files,
                                        Message(cur.current_file, "ExifTool error"))
               /\ index' = index + 1
               /\ pc' = AfterRow
               /\ log' = Append(log, Outcome("stamp_failed", cur.current_file, cur.area,
                                             cur.computed_name, cur.suggested_name,
                                             "failed", cur.collided, FALSE))
    /\ UNCHANGED <<exiftool, doc, fs, dirs, fs0, dirs0, clock, file_data, success_count,
                   result, report>>

\* lines 273-292: exiftool run on the source file; a failure is only a warning
Stamp ==
    /\ pc = "stamp"
    /\ stamp_requests' = stamp_requests + 1
    /\ \E ok \in BOOLEAN :
          cur' = [cur EXCEPT !.stamp = IF ok THEN "ok" ELSE "failed"]
    /\ pc' = "move"
    /\ UNCHANGED <<exiftool, doc, fs, dirs, fs0, dirs0, clock, file_data, index, success_count,
                   error_count, error_files, log, result, report>>

\* lines 294-299
MoveSucceeds ==
    /\ pc = "move"
    /\ fs' = MoveFile(fs, cur.current_file, cur.area, cur.suggested_name)
    /\ success_count' = success_count + 1
    /\ index' = index + 1
    /\ pc' = AfterRow
    /\ log' = Append(log, Outcome("moved", cur.current_file, cur.area,
                                  cur.computed_name, cur.suggested_name, cur.stamp,
                                  cur.collided,
                                  Exists(fs, cur.area, cur.suggested_name)))
    /\ cur' = NoCur
    /\ UNCHANGED <<exiftool, doc, dirs, fs0, dirs0, clock, file_data, error_count, error_files,
                   stamp_requests, result, report>>

\* lines 300-304
MoveFails ==
    /\ pc = "move"
    /\ error_count' = error_count + 1
    /\ error_files' = Append(error_files,
                             Message(cur.current_file, "Failed to move file"))
    /\ index' = index + 1
    /\ pc' = AfterRow
    /\ log' = Append(log, Outcome("move_failed", cur.current_file, cur.area,
                                  cur.computed_name, cur.suggested_name, cur.stamp,
                                  cur.collided,
                                  Exists(fs, cur.area, cur.suggested_name)))
    /\ cur' = NoCur
    /\ UNCHANGED <<exiftool, doc, fs, dirs, fs0, dirs0, clock, file_data, success_count,
                   stamp_requests, result, report>>

\* lines 312-333
Summary ==
    /\ pc = "summary"
    /\ report' = IF error_count > 0
                 THEN [written |-> TRUE, lines |-> error_files]
                 ELSE report
    /\ result' = "True"
    /\ pc' = "done"
    /\ UNCHANGED <<exiftool, doc, fs, dirs, fs0, dirs0, clock, file_data, index, success_count,
                   error_count, error_files, cur, stamp_requests, log>>

Next ==
    \/ CheckExifTool
    \/ CheckMarkdownFile
    \/ ParseTable
    \/ SkipRow
    \/ RowException
    \/ SourceMissing
    \/ CreateFolderFails
    \/ PrepareRow
    \/ Stamp
    \/ MoveSucceeds
    \/ MoveFails
    \/ Summary

Spec == Init /\ [][Next]_vars

\* ================================================================= claims
Done == pc = "done"

\* canonical column keys of the header, read off the document
HeaderKeys(d) ==
    {NormHeader(Strip(d.header[i])) : i \in 1..Len(d.header)} \ {<<>>}

RequiredPresent(d) ==
    LET keys == HeaderKeys(d)
    IN  ReqCurrent \in keys /\ ReqSuggested \in keys /\ ReqArea \in keys

\* 0-based position of a column key in the header, counting non-blank cells
ColumnOf(d, key) ==
    LET cellsH == SelectSeq(d.header, LAMBDA h : Strip(h) # <<>>)
    IN  (CHOOSE i \in 1..Len(cellsH) :
            /\ NormHeader(Strip(cellsH[i])) = key
            /\ \A j \in 1..(i - 1) : NormHeader(Strip(cellsH[j])) # key) - 1

\* number of non-empty pipe-delimited segments of body line i
CellCount(d, i) == Cardinality({j \in 1..Len(d.body[i]) : d.body[i][j] # <<>>})

RequiredWidth(d) ==
    1 + Max2(ColumnOf(d, ReqCurrent), Max2(ColumnOf(d, ReqSuggested), ColumnOf(d, ReqArea)))

\* body lines whose cell count covers every required column index
CoveringLines(d) == {i \in 1..Len(d.body) : CellCount(d, i) >= RequiredWidth(d)}

Count(kinds) == Cardinality({i \in 1..Len(log) : log[i].kind \in kinds})

\* ---------------------------------------------------------------- C10
\* C10: every row of the parsed sequence produces exactly one outcome: the two
\* counters always add up to the number of rows processed so far, neither
\* ever decreases, and when the summary has been printed they add up to the
\* number of body lines that were kept as rows (dropped lines count in neither).
C10_OneOutcomePerRow ==
    /\ [](/\ success_count + error_count = index
          /\ success_count = Count({"moved"})
          /\ (Done /\ result = "True" =>
                 success_count + error_count = Cardinality(CoveringLines(doc))))
    /\ [][/\ success_count' >= success_count
          /\ error_count' >= error_count
          /\ index' \in {index, index + 1}]_vars

C10_Witness ==
    /\ Done /\ result = "True"
    /\ success_count + error_count >= 1
    /\ Cardinality(CoveringLines(doc)) < Len(doc.body)

\* ----------------------------------------------------------------- C6
RowHasEmptyField ==
    \/ Strip(Row[KeyCurrent]) = <<>>
    \/ Strip(Row[KeySuggested]) = <<>>
    \/ Strip(Row[KeyArea]) = <<>>

\* C6: a row whose Current File Name, Suggested File Name or Area is empty
\* after trimming is skipped: processing it adds exactly one to the error
\* count, leaves the success count alone, changes no file or folder, requests
\* no stamping, and the loop goes on to the next row.
C6_SkipIsPure ==
    [][(InLoop /\ RowHasEmptyField) =>
          /\ error_count' = error_count + 1
          /\ success_count' = success_count
          /\ fs' = fs
          /\ dirs' = dirs
          /\ stamp_requests' = stamp_requests
          /\ index' = index + 1
          /\ pc' = IF index' < Len(file_data.rows) THEN "row" ELSE "summary"]_vars

C6_Witness ==
    /\ Len(log) = 2
    /\ log[1].kind = "skipped"
    /\ log[2].kind = "moved"
    /\ error_count = 1

\* ----------------------------------------------------------------- C5
\* C5: the error-message list holds exactly one entry per failed row: its
\* length always equals the error count.
C5_OneMessagePerError == Len(error_files) = error_count

\* ----------------------------------------------------------------- C3
FatalToRun(d) == ~d.exists \/ ~d.table \/ ~RequiredPresent(d)

\* C3: when pictures.md is absent, holds no table block, or its header lacks
\* one of currentfilename / suggestedfilename / area (also when another header
\* merely contains the missing key), the run never enters the row loop and
\* ends reporting failure with no row processed, no file moved, no folder
\* created and no stamping requested.
C3_FatalAbortsClean ==
    FatalToRun(doc) =>
        /\ pc \in {"check_exiftool", "check_markdown", "parse", "done"}
        /\ Done => result = "False"
        /\ index = 0 /\ success_count = 0 /\ error_count = 0 /\ log = <<>>
        /\ fs = fs0 /\ dirs = dirs0
        /\ stamp_requests = 0

C3_Witness ==
    /\ Done /\ exiftool
    /\ doc.exists /\ doc.table
    /\ ReqArea \notin HeaderKeys(doc)
    /\ \E k \in HeaderKeys(doc) : Contains(k, ReqArea)
    /\ result = "False"

\* ----------------------------------------------------------------- C7
RECURSIVE Ascending(_)
Ascending(S) ==
    IF S = {} THEN <<>>
    ELSE LET m == CHOOSE x \in S : \A y \in S : x <= y
         IN  <<m>> \o Ascending(S \ {m})

CellsOf(d, i) ==
    LET kept == SelectSeq(d.body[i], LAMBDA c : c # <<>>)
    IN  [j \in 1..Len(kept) |-> Strip(kept[j])]

Optional(d, i, key, column) ==
    IF column \in HeaderKeys(d) /\ ColumnOf(d, column) < CellCount(d, i)
    THEN key :> CellsOf(d, i)[ColumnOf(d, column) + 1]
    ELSE [k \in {} |-> <<>>]

ExpectedRow(d, i) ==
    (KeyCurrent :> CellsOf(d, i)[ColumnOf(d, ReqCurrent) + 1])
    @@ (KeySuggested :> CellsOf(d, i)[ColumnOf(d, ReqSuggested) + 1])
    @@ (KeyArea :> CellsOf(d, i)[ColumnOf(d, ReqArea) + 1])
    @@ Optional(d, i, KeyDate, OptDate)
    @@ Optional(d, i, KeyTags, OptTags)

ExpectedRows(d, lines) ==
    LET order == Ascending(lines)
    IN  [n \in 1..Len(order) |-> ExpectedRow(d, order[n])]

OptionalWidth(d) ==
    Max2(IF OptDate \in HeaderKeys(d) THEN 1 + ColumnOf(d, OptDate) ELSE 0,
         IF OptTags \in HeaderKeys(d) THEN 1 + ColumnOf(d, OptTags) ELSE 0)

\* body lines whose cell count covers the required columns and every
\* optional column present in the header
FullyCoveringLines(d) ==
    {i \in CoveringLines(d) : CellCount(d, i) >= OptionalWidth(d)}

ParseRan ==
    /\ exiftool /\ doc.exists
    /\ pc \notin {"check_exiftool", "check_markdown", "parse"}

\* the step in which parse_markdown_table returns, for a table with the
\* required columns
ParseReturns == pc = "parse" /\ pc' # "parse" /\ ~FatalToRun(doc)

\* C7 as stated: the rows returned are exactly the body lines whose cell count
\* covers the required columns and the optional columns present in the header.
C7_AsStated ==
    [][ParseReturns =>
          file_data'.rows = ExpectedRows(doc, FullyCoveringLines(doc))]_vars

\* C7 (amended): parse_markdown_table keeps a body line as a row exactly when
\* its cell count covers every required column index; a kept line that does
\* not reach an optional column of the header is returned without that field;
\* lines with fewer cells are dropped and the kept rows are in line order.
C7_RequiredColumnsDecide ==
    [][ParseReturns =>
          /\ ~file_data'.none
          /\ file_data'.rows = ExpectedRows(doc, CoveringLines(doc))]_vars

C7_Witness ==
    /\ ParseRan /\ ~FatalToRun(doc)
    /\ Len(doc.body) = 2
    /\ Len(file_data.rows) = 1
    /\ OptDate \in HeaderKeys(doc)
    /\ KeyDate \notin DOMAIN file_data.rows[1]

\* ----------------------------------------------------------------- C8
RequestsStamping(row) ==
    \/ KeyDate \in DOMAIN row /\ Strip(row[KeyDate]) # <<>>
    \/ KeyTags \in DOMAIN row /\ Strip(row[KeyTags]) # <<>>

\* C8: for a row that requests stamping and reached the stamping step, the
\* stamping step (whether exiftool succeeds or fails) changes no counter and
\* no file and is always followed by the move; stamping is requested exactly
\* when Date or Tags is non-empty, only at that step, before the move; and a
\* move that succeeds counts the row as a success.
C8_StampFailureNotFatal ==
    [][/\ (pc = "stamp" =>
              /\ pc' = "move"
              /\ error_count' = error_count
              /\ success_count' = success_count
              /\ index' = index
              /\ fs' = fs)
       /\ (stamp_requests' # stamp_requests =>
              pc = "stamp" /\ stamp_requests' = stamp_requests + 1)
       /\ (InLoop /\ pc' \in {"stamp", "move"} =>
              (pc' = "stamp" <=> RequestsStamping(Row)))
       /\ (pc = "move" /\ fs' # fs =>
              success_count' = success_count + 1 /\ error_count' = error_count)]_vars

C8_Witness ==
    /\ Len(log) >= 1
    /\ log[1].stamp = "failed"
    /\ log[1].kind = "moved"
    /\ success_count = 1
    /\ error_count = 0

\* ----------------------------------------------------------------- C1
Src(row) == ResolveCurrent(Field(row, KeyCurrent))
DestDir(row) == sanitize_filename(Field(row, KeyArea))
DestName(row) == ResolveSuggested(Field(row, KeySuggested))

Rows == file_data.rows

\* every body line became a row and every row has usable required fields
WellFormed ==
    /\ ~FatalToRun(doc)
    /\ CoveringLines(doc) = 1..Len(doc.body)
    /\ \A i \in 1..Len(Rows) : Normalizes(Rows[i])

SrcPath(row) == <<PathDir(<<>>), Src(row)>>
DestPath(row) == <<PathDir(DestDir(row)), DestName(row)>>

DistinctDestinations ==
    \A i, j \in 1..Len(Rows) : i # j => DestPath(Rows[i]) # DestPath(Rows[j])

\* no two rows share a source file, and no row's destination is a row's source
SourcesApart ==
    \A i, j \in 1..Len(Rows) :
        /\ i # j => SrcPath(Rows[i]) # SrcPath(Rows[j])
        /\ SrcPath(Rows[i]) # DestPath(Rows[j])

NoDestinationAtStart ==
    \A i \in 1..Len(Rows) : ~Exists(fs0, DestDir(Rows[i]), DestName(Rows[i]))

NoCollaboratorFailure ==
    exiftool /\ Count({"folder_failed", "move_failed"}) = 0

Relocated(row) ==
    Exists(fs0, <<>>, Src(row)) =>
        /\ Exists(fs, DestDir(row), DestName(row))
        /\ FileAt(fs, DestDir(row), DestName(row)).id = FileAt(fs0, <<>>, Src(row)).id
        /\ ~Exists(fs, <<>>, Src(row))

RunEnded == Done /\ result = "True"

\* C1 as stated, read for runs in which every collaborator call succeeds:
\* with pairwise distinct destination paths, every row whose source file was
\* present at the start ends with its file at the computed destination.
C1_AsStated ==
    (RunEnded /\ WellFormed /\ DistinctDestinations /\ NoCollaboratorFailure) =>
        \A i \in 1..Len(Rows) : Relocated(Rows[i])

\* C1 (amended): for a well-formed table whose rows' resolved source paths
\* and computed destination paths all name pairwise distinct files, none of
\* whose destination paths exists when the run starts, and a run in which
\* exiftool is available and no folder creation or move fails, at the end
\* each row whose source file was present at the start has its file at the
\* computed destination path and no file at its source path.
C1_Relocation ==
    (RunEnded /\ WellFormed /\ DistinctDestinations /\ SourcesApart
       /\ NoDestinationAtStart /\ NoCollaboratorFailure) =>
        \A i \in 1..Len(Rows) : Relocated(Rows[i])

C1_Witness ==
    /\ RunEnded /\ WellFormed /\ DistinctDestinations /\ SourcesApart
    /\ NoDestinationAtStart /\ NoCollaboratorFailure
    /\ Len(Rows) = 2
    /\ \A i \in 1..2 : Exists(fs0, <<>>, Src(Rows[i]))
    /\ success_count = 2

\* ----------------------------------------------------------------- C2
\* C2: whenever the computed destination exists when a row is processed, the
\* name passed to the move differs from the computed one and is free at the
\* moment of the move; no successful move lands on an existing file.
C2_NeverOverwrites ==
    \A i \in 1..Len(log) :
        log[i].kind \in {"moved", "move_failed"} =>
            /\ log[i].collided => log[i].dest_name # log[i].computed_name
            /\ ~log[i].dest_existed

\* ----------------------------------------------------------------- C4
\* C4: when exiftool is available, pictures.md exists and holds a table block
\* whose header has the three required columns, the run ends with the summary
\* and returns True, however many body lines are dropped and rows fail.
C4_CompletesWhenParsed ==
    (Done /\ exiftool /\ ~FatalToRun(doc)) => result = "True"

\* ----------------------------------------------------------------- C9
\* the name the claim gives for a trimmed Current File Name value
ClaimedName(raw) ==
    LET B == BeforeFirstDot(raw)
    IN  (IF B # <<>> /\ \A k \in 1..Len(B) : B[k] \in DigitChars
         THEN StrInt(B)
         ELSE B) \o JpgExt

\* C9: every processed row with non-empty required fields resolves its source
\* file name to B + ".jpg", B being the text before the first '.', in minimal
\* decimal form when it consists only of digits.
C9_ResolvedName ==
    \A i \in 1..Len(log) :
        log[i].kind # "skipped" =>
            /\ log[i].kind # "exception"
            /\ log[i].current_file = ClaimedName(Strip(log[i].row[KeyCurrent]))

====
